---- MODULE Spec2Model ----
(***************************************************************************)
(* Model of the dataset transformation workflow                            *)
(* (src/dataset_transformation_workflow.py and                             *)
(* src/dataset_transformation_functions.py).                               *)
(*                                                                         *)
(* A table (pandas DataFrame) is a record                                  *)
(*     [none |-> BOOLEAN, cols |-> sequence of column names,               *)
(*      rows |-> sequence of functions column name -> cell].               *)
(* none = TRUE stands for Python's None.  Text is a sequence of one-       *)
(* character strings, so that split, int(), float(), str() and the         *)
(* f-string formats are computed and not assumed.  A cell is NA (every     *)
(* pandas null: None, NaN, pd.NA), an integer [k |-> "int", v |-> n], a    *)
(* float [k |-> "flt", v |-> t] holding t tenths, or text                  *)
(* [k |-> "str", s |-> chars].                                             *)
(***************************************************************************)
EXTENDS Integers, Sequences, FiniteSets, TLC

VARIABLES
    raw,        \* the CSV file's cells as text (fixed during a run)
    traitFile,  \* trait_dict.json: "ok", "missing" or "malformed"
    taxFile,    \* taxonomy_list.json: "ok", "missing" or "malformed"
    pc,         \* the next stage of the workflow
    df,         \* the table threaded through the stages
    prev,       \* the table the last stage received
    log,        \* the stages that have run, in order
    saved,      \* whether save_dataframe_to_csv has run
    out         \* the persisted table

vars == <<raw, traitFile, taxFile, pc, df, prev, log, saved, out>>

----------------------------------------------------------------------------
(* Bounds of the model *)

MaxRows == 2

----------------------------------------------------------------------------
(* Text *)

Digits == <<"0", "1", "2", "3", "4", "5", "6", "7", "8", "9">>

IsDigit(c) == \E i \in 1..10 : Digits[i] = c

DigitVal(c) == (CHOOSE i \in 1..10 : Digits[i] = c) - 1

Contains(s, c) == \E i \in 1..Len(s) : s[i] = c

AllDigits(s) == Len(s) > 0 /\ \A i \in 1..Len(s) : IsDigit(s[i])

RECURSIVE NatOf(_)
NatOf(s) == IF s = <<>> THEN 0 ELSE 10 * NatOf(SubSeq(s, 1, Len(s) - 1)) + DigitVal(s[Len(s)])

RECURSIVE NatStr(_)
NatStr(n) == IF n < 10 THEN <<Digits[n + 1]>> ELSE NatStr(n \div 10) \o <<Digits[(n % 10) + 1]>>

\* str(n) of a Python int
IntStr(n) == IF n < 0 THEN <<"-">> \o NatStr(-n) ELSE NatStr(n)

RECURSIVE ZFill(_, _)
\* str.zfill(w): zeros go after a leading sign
ZFill(s, w) ==
    IF Len(s) >= w THEN s
    ELSE IF Len(s) > 0 /\ s[1] \in {"-", "+"} THEN <<s[1]>> \o ZFill(Tail(s), w - 1)
    ELSE ZFill(<<"0">> \o s, w)

\* f"{n:02d}" and f"{n:04d}": the sign counts in the width
FmtD(n, w) == ZFill(IntStr(n), w)

RECURSIVE Split(_, _)
\* str.split(sep) for a one-character separator
Split(s, sep) ==
    IF ~Contains(s, sep) THEN <<s>>
    ELSE LET i == CHOOSE j \in 1..Len(s) : s[j] = sep /\ \A k \in 1..(j - 1) : s[k] # sep
         IN <<SubSeq(s, 1, i - 1)>> \o Split(SubSeq(s, i + 1, Len(s)), sep)

RECURSIVE Strip(_)
\* str.strip() for blanks
Strip(s) ==
    IF s = <<>> THEN s
    ELSE IF s[1] = " " THEN Strip(Tail(s))
    ELSE IF s[Len(s)] = " " THEN Strip(SubSeq(s, 1, Len(s) - 1))
    ELSE s

\* str.replace(',', '.')
ReplaceComma(s) == [i \in 1..Len(s) |-> IF s[i] = "," THEN "." ELSE s[i]]

UpperCase == <<"G", "H", "N", "J", "R", "D", "S">>
LowerCase == <<"g", "h", "n", "j", "r", "d", "s">>

\* str.lower(), for the letters the inputs use
Lower(s) ==
    [i \in 1..Len(s) |->
        IF \E j \in 1..Len(UpperCase) : UpperCase[j] = s[i]
        THEN LowerCase[CHOOSE j \in 1..Len(UpperCase) : UpperCase[j] = s[i]]
        ELSE s[i]]

\* int(text): an optional sign and at least one digit, blanks around allowed
IntParse(t) ==
    LET s == Strip(t)
        signed == Len(s) > 0 /\ s[1] \in {"-", "+"}
        body == IF signed THEN Tail(s) ELSE s
    IN IF AllDigits(body)
       THEN [ok |-> TRUE, v |-> IF signed /\ s[1] = "-" THEN -NatOf(body) ELSE NatOf(body)]
       ELSE [ok |-> FALSE, v |-> 0]

\* float(text), in tenths: an optional sign, digits, and at most one
\* fractional digit (the inputs of the model carry no more)
FloatParse(t) ==
    LET s == Strip(t)
        signed == Len(s) > 0 /\ s[1] \in {"-", "+"}
        body == IF signed THEN Tail(s) ELSE s
        parts == Split(body, ".")
        sign == IF signed /\ s[1] = "-" THEN -1 ELSE 1
    IN IF Len(parts) = 1 /\ AllDigits(body)
       THEN [ok |-> TRUE, isInt |-> TRUE, v |-> sign * 10 * NatOf(body)]
       ELSE IF Len(parts) = 2 /\ AllDigits(parts[1]) /\ Len(parts[2]) = 1 /\ AllDigits(parts[2])
       THEN [ok |-> TRUE, isInt |-> FALSE, v |-> sign * (10 * NatOf(parts[1]) + NatOf(parts[2]))]
       ELSE [ok |-> FALSE, isInt |-> FALSE, v |-> 0]

Abs(n) == IF n < 0 THEN -n ELSE n

\* str(x) of a Python float given in tenths: 405 is "40.5", 120 is "12.0"
FloatStr(t) ==
    (IF t < 0 THEN <<"-">> ELSE <<>>) \o NatStr(Abs(t) \div 10) \o <<".">> \o NatStr(Abs(t) % 10)

----------------------------------------------------------------------------
(* Cells *)

NA == [k |-> "na"]
StrCell(s) == [k |-> "str", s |-> s]
IntCell(n) == [k |-> "int", v |-> n]
FltCell(t) == [k |-> "flt", v |-> t]

IsNA(x) == x.k = "na"
IsNum(x) == x.k \in {"int", "flt"}
IsStr(x) == x.k = "str"

\* the number a numeric cell holds, in tenths
Tenths(x) == IF x.k = "int" THEN 10 * x.v ELSE x.v

\* str(x) of a cell; a null prints as nullText ("nan" for NaN, "None" for None)
CellStr(x, nullText) ==
    IF x.k = "str" THEN x.s
    ELSE IF x.k = "int" THEN IntStr(x.v)
    ELSE IF x.k = "flt" THEN FloatStr(x.v)
    ELSE nullText

----------------------------------------------------------------------------
(* Text constants of the program and of the inputs *)

InvalidDate == <<"I", "n", "v", "a", "l", "i", "d", "D", "a", "t", "e">>
NanText == <<"n", "a", "n">>
NoneText == <<"N", "o", "n", "e">>
no_lat == <<"N", "a", "N", ",", " ">>
no_long == <<",", " ", "N", "a", "N">>

D_15_06_23 == <<"1", "5", "/", "0", "6", "/", "2", "3">>
D_15_06_99 == <<"1", "5", "/", "0", "6", "/", "9", "9">>
D_2020_06_15 == <<"2", "0", "2", "0", "-", "0", "6", "-", "1", "5">>
D_not_a_date == <<"n", "o", "t", "-", "a", "-", "d", "a", "t", "e">>
D_15_06_2023 == <<"1", "5", "/", "0", "6", "/", "2", "0", "2", "3">>
D_23_06_15 == <<"2", "3", "-", "0", "6", "-", "1", "5">>
D_5_6_7 == <<"5", "-", "6", "-", "7">>
D_15_06 == <<"1", "5", "/", "0", "6">>
D_20200615 == <<"2", "0", "2", "0", "0", "6", "1", "5">>
D_interval == <<"2", "0", "2", "0", "-", "0", "6", "-", "1", "5", "/", "2", "0", "2", "0", "-", "0", "6", "-", "2", "0">>
D_neg_year == <<"1", "5", "/", "0", "6", "/", "-", "5">>
D_1_2_123 == <<"1", "/", "2", "/", "1", "2", "3">>
D_15_06_40 == <<"1", "5", "/", "0", "6", "/", "4", "0">>
D_15_06_39 == <<"1", "5", "/", "0", "6", "/", "3", "9">>
R_2023_06_15 == <<"2", "0", "2", "3", "-", "0", "6", "-", "1", "5">>
R_1999_06_15 == <<"1", "9", "9", "9", "-", "0", "6", "-", "1", "5">>
P_40p5_m3p7 == <<"4", "0", ".", "5", ",", " ", "-", "3", ".", "7">>

T_40c5 == <<"4", "0", ",", "5">>
T_m3c7 == <<"-", "3", ",", "7">>
T_12 == <<"1", "2">>
T_abc == <<"a", "b", "c">>
T_x == <<"x">>
T_5 == <<"5">>
T_m2p5 == <<"-", "2", ".", "5">>
T_deep == <<"d", "e", "e", "p">>
T_NAN == <<"N", "A", "N">>
T_NaN == <<"N", "a", "N">>
T_none == <<"n", "o", "n", "e">>
T_empty == <<"e", "m", "p", "t", "y">>
T_Null == <<"N", "u", "l", "l">>
T_blank == <<" ">>
T_3p5 == <<"3", ".", "5">>
T_7 == <<"7">>
T_23 == <<"2", "3">>
T_99 == <<"9", "9">>
T_2020 == <<"2", "0", "2", "0">>
T_6 == <<"6">>
T_June == <<"J", "u", "n", "e">>
T_15 == <<"1", "5">>
T_Genus == <<"G", "e", "n", "u", "s">>
T_Homo == <<"H", "o", "m", "o">>
T_Hominidae == <<"H", "o", "m", "i", "n", "i", "d", "a", "e">>
T_sapiens == <<"s", "a", "p", "i", "e", "n", "s">>
T_Rome == <<"R", "o", "m", "e">>
T_temp == <<"t", "e", "m", "p">>
T_url == <<"u", ":", "1">>
T_ds1 == <<"d", "s", "1">>
T_DS == <<"D", "S">>
T_dup == <<"d", "u", "p">>

----------------------------------------------------------------------------
(* Tables *)

NoneDF == [none |-> TRUE, cols |-> <<>>, rows |-> <<>>]

Table(cols, rows) == [none |-> FALSE, cols |-> cols, rows |-> rows]

ColSet(t) == {t.cols[i] : i \in 1..Len(t.cols)}

HasCol(t, c) == c \in ColSet(t)

NRows(t) == Len(t.rows)

\* the cells of column c, top to bottom
Column(t, c) == [i \in 1..NRows(t) |-> t.rows[i][c]]

RECURSIVE FilterSeq(_, _)
\* the members of sequence s that are in set keep, in order
FilterSeq(s, keep) ==
    IF s = <<>> THEN <<>>
    ELSE (IF Head(s) \in keep THEN <<Head(s)>> ELSE <<>>) \o FilterSeq(Tail(s), keep)

\* df[c] = cells: a new column goes last, an existing one is overwritten
SetCol(t, c, cells) ==
    Table(IF HasCol(t, c) THEN t.cols ELSE Append(t.cols, c),
          [i \in 1..NRows(t) |->
              [d \in ColSet(t) \cup {c} |-> IF d = c THEN cells[i] ELSE t.rows[i][d]]])

\* df[c] = v for a scalar v
SetColConst(t, c, v) == SetCol(t, c, [i \in 1..NRows(t) |-> v])

\* df.drop(columns=drop, errors='ignore')
DropCols(t, drop) ==
    Table(FilterSeq(t.cols, ColSet(t) \ drop),
          [i \in 1..NRows(t) |-> [d \in ColSet(t) \ drop |-> t.rows[i][d]]])

\* df.rename(columns={from: to}); a column that is absent is left alone
RenameCol(t, from, to) ==
    IF ~HasCol(t, from) THEN t
    ELSE Table([i \in 1..Len(t.cols) |-> IF t.cols[i] = from THEN to ELSE t.cols[i]],
               [i \in 1..NRows(t) |->
                   [d \in (ColSet(t) \ {from}) \cup {to} |->
                       IF d = to THEN t.rows[i][from] ELSE t.rows[i][d]]])

RECURSIVE SelectRows(_, _, _)
\* the rows of t at the positions keep, in order
SelectRows(rows, keep, i) ==
    IF i > Len(rows) THEN <<>>
    ELSE (IF i \in keep THEN <<rows[i]>> ELSE <<>>) \o SelectRows(rows, keep, i + 1)

----------------------------------------------------------------------------
(* The inputs: the CSV file and the two JSON files *)

\* the keys of trait_dict.json and the members of taxonomy_list.json
TraitKeys == {"height", "weight"}
TaxonomyList == {"genus", "family"}

\* trait_dict.json: key -> [{"label", "definition", "unit", "type"}]
TraitDict ==
    [key \in TraitKeys |->
        [label |-> <<"L", ":">> \o <<key>>, definition |-> <<"D", ":">> \o <<key>>,
         unit |-> <<"U", ":">> \o <<key>>, type |-> <<"T", ":">> \o <<key>>]]

FileStates == {"ok", "missing", "malformed"}

DateInputs ==
    {<<>>, D_15_06_23, D_15_06_99, D_2020_06_15, D_not_a_date, D_15_06_2023, D_23_06_15,
     D_5_6_7, D_15_06, D_20200615, D_interval, D_neg_year, D_1_2_123, D_15_06_40,
     D_15_06_39, T_2020}

\* the texts a cell of column c ranges over when the column is in focus
FullDom(c) ==
    CASE c = "eventDate" -> DateInputs
      [] c = "year" -> {<<>>, T_23, T_99, T_2020, T_abc}
      [] c = "month" -> {<<>>, T_6, T_June}
      [] c = "day" -> {<<>>, T_15}
      [] c = "decimalLatitude" -> {<<>>, T_40c5, T_12, T_abc}
      [] c = "decimalLongitude" -> {<<>>, T_m3c7, T_x}
      [] c = "depth" -> {<<>>, T_5, T_m2p5, T_deep}
      [] c = "height" -> {<<>>, T_12, T_abc, T_NAN, T_blank}
      [] c = "weight" -> {<<>>, T_3p5, T_none}
      [] c = "measurementValue" -> {<<>>, T_7, T_empty}
      [] c = "taxonRank" -> {<<>>, T_Genus}
      [] c = "genus" -> {<<>>, T_Homo}
      [] c = "locality" -> {T_Rome, T_blank}
      [] OTHER -> {T_x}

\* the text of a cell of column c otherwise
DefaultDom(c) ==
    CASE c = "eventDate" -> {D_2020_06_15}
      [] c = "year" -> {T_2020}
      [] c = "month" -> {T_6}
      [] c = "day" -> {T_15}
      [] c = "decimalLatitude" -> {T_40c5}
      [] c = "decimalLongitude" -> {T_m3c7}
      [] c = "locality" -> {T_Rome}
      [] c = "depth" -> {T_5}
      [] c = "height" -> {T_12}
      [] c = "weight" -> {T_3p5}
      [] c = "measurementValue" -> {T_7}
      [] c = "measurementType" -> {T_temp}
      [] c = "measurementTypeID" -> {T_url}
      [] c = "taxonRank" -> {T_Genus}
      [] c = "acceptedNameUsage" -> {T_sapiens}
      [] c = "genus" -> {T_Homo}
      [] c = "family" -> {T_Hominidae}
      [] OTHER -> {T_dup}

Base == <<"eventDate", "decimalLatitude", "decimalLongitude", "height">>
NoTrait == <<"eventDate", "decimalLatitude", "decimalLongitude">>

Profile(cols, full, files) == [cols |-> cols, full |-> full, files |-> files]

\* the shapes of input file the model runs the workflow on: the columns,
\* the columns whose cells range over their full domain, and whether the
\* two JSON files range over their states
Profiles ==
    { Profile(Base, {"eventDate"}, FALSE),
      Profile(<<"year", "month", "day">> \o Tail(Base), {"year", "month"}, FALSE),
      Profile(<<"year">> \o Tail(Base), {"year"}, FALSE),
      Profile(<<"month", "day">> \o Tail(Base), {"day"}, FALSE),
      Profile(Base, {"decimalLatitude", "decimalLongitude"}, FALSE),
      Profile(<<"eventDate", "decimalLongitude", "height">>, {}, FALSE),
      Profile(<<"eventDate", "decimalLatitude", "locality", "height">>, {"locality"}, FALSE),
      Profile(<<"eventDate", "height">>, {}, FALSE),
      Profile(Base \o <<"depth">>, {"depth"}, FALSE),
      Profile(Base \o <<"weight">>, {"height", "weight"}, FALSE),
      Profile(Base \o <<"weight", "observationId">>, {"height"}, FALSE),
      Profile(Base \o <<"measurementValue">>, {}, FALSE),
      Profile(NoTrait \o <<"measurementValue", "measurementType", "measurementTypeID">>,
              {"measurementValue"}, FALSE),
      Profile(NoTrait \o <<"measurementValue", "measurementTypeID">>, {}, FALSE),
      Profile(NoTrait \o <<"measurementValue", "measurementType", "observationId">>, {}, FALSE),
      Profile(NoTrait, {}, TRUE),
      Profile(NoTrait \o <<"observationId">>, {}, FALSE),
      Profile(Base, {}, TRUE),
      Profile(Base \o <<"taxonRank", "acceptedNameUsage">>, {"taxonRank"}, FALSE),
      Profile(Base \o <<"taxonRank", "acceptedNameUsage", "genus", "family">>,
              {"taxonRank", "genus"}, FALSE),
      Profile(Base \o <<"taxonRank", "genus">>, {}, FALSE),
      Profile(Base \o <<"genus", "family">>, {"genus"}, TRUE),
      Profile(Base \o <<"genus">>, {"genus"}, FALSE),
      Profile(Base \o <<"genus", "taxon">>, {}, FALSE),
      Profile(Base \o <<"taxon">>, {}, FALSE),
      Profile(Base \o <<"featureOfInterestId">>, {}, FALSE) }

RECURSIVE RowsOver(_, _)
\* the rows of text a profile allows
RowsOver(cols, full) ==
    IF cols = <<>> THEN {<<>>}
    ELSE {(Head(cols) :> v) @@ r :
            v \in (IF Head(cols) \in full THEN FullDom(Head(cols)) ELSE DefaultDom(Head(cols))),
            r \in RowsOver(Tail(cols), full)}

----------------------------------------------------------------------------
(* data_preparation, lines 42-56: read the file, add the dataset's id and    *)
(* label, strip the text columns                                             *)

\* the texts pd.read_csv reads as missing (of its default na_values, the
\* two the inputs use)
IsNaText(s) == s = <<>> \/ s = T_NaN

\* pd.read_csv's type of a column: int64 when every cell is an integer,
\* float64 when every cell present is a number, else object (text)
ReadColumn(cells) ==
    LET present == {i \in 1..Len(cells) : ~IsNaText(cells[i])}
        allInt == present = 1..Len(cells) /\ \A i \in present : IntParse(cells[i]).ok
        allNum == \A i \in present : FloatParse(cells[i]).ok
    IN [i \in 1..Len(cells) |->
           IF i \notin present THEN NA
           ELSE IF allInt THEN IntCell(IntParse(cells[i]).v)
           ELSE IF allNum THEN FltCell(FloatParse(cells[i]).v)
           ELSE StrCell(Strip(cells[i]))]

read_csv(r) ==
    Table(r.cols,
          [i \in 1..Len(r.rows) |->
              [c \in {r.cols[j] : j \in 1..Len(r.cols)} |->
                  ReadColumn([k \in 1..Len(r.rows) |-> r.rows[k][c]])[i]]])

LoadTable(r) ==
    SetColConst(SetColConst(read_csv(r), "datasetId", StrCell(T_ds1)),
                "datasetLabel", StrCell(T_DS))

----------------------------------------------------------------------------
(* DateNormalizer *)

\* the two-digit rule with its pivot at 50
TwoDigitYearPivot50(y) ==
    IF y < 50 THEN <<"2", "0">> \o FmtD(y, 2)
    ELSE IF y < 100 THEN <<"1", "9">> \o FmtD(y, 2)
    ELSE IntStr(y)

\* lines 98-107: the year as int, the two-digit rule, the f-string
TwoDigitYear(y) ==
    IF y < 40 THEN <<"2", "0">> \o FmtD(y, 2)
    ELSE IF y < 100 THEN <<"1", "9">> \o FmtD(y, 2)
    ELSE IntStr(y)

FixParts(year, month, day) ==
    IF ~IntParse(year).ok THEN InvalidDate
    ELSE TwoDigitYear(IntParse(year).v) \o <<"-">> \o month \o <<"-">> \o day

fix_event_date(date) ==
    IF Contains(date, "/")
    THEN LET parts == Split(date, "/")
         IN IF Len(parts) < 3 THEN InvalidDate                  \* parts[2]: IndexError
            ELSE IF Len(parts[3]) = 4 THEN FixParts(parts[3], parts[2], parts[1])
            ELSE IF Len(parts) # 3 THEN InvalidDate             \* unpacking: ValueError
            ELSE FixParts(parts[3], parts[2], parts[1])
    ELSE IF Contains(date, "-")
    THEN LET parts == Split(date, "-")
         IN IF Len(parts[1]) = 4 THEN date
            ELSE IF Len(parts) # 3 THEN InvalidDate             \* unpacking: ValueError
            ELSE FixParts(parts[1], parts[2], parts[3])
    ELSE date

\* int(x) of astype(int): truncation for a float, int(text) for text
AsInt(x) ==
    IF x.k = "int" THEN [ok |-> TRUE, v |-> x.v]
    ELSE IF x.k = "flt" THEN [ok |-> TRUE, v |-> IF x.v < 0 THEN -((-x.v) \div 10) ELSE x.v \div 10]
    ELSE IF x.k = "str" THEN IntParse(x.s)
    ELSE [ok |-> FALSE, v |-> 0]

\* lines 121-123 for one cell: fillna(1).astype(int).astype(str).str.zfill(2)
MonthDayCell(x) == StrCell(ZFill(IntStr(AsInt(IF IsNA(x) THEN IntCell(1) ELSE x).v), 2))

MonthDayFails(x) == ~IsNA(x) /\ ~AsInt(x).ok

\* lines 126-138
normalize_year(y) ==
    IF IsNA(y) THEN NA
    ELSE LET f == IF IsStr(y) THEN FloatParse(y.s) ELSE [ok |-> TRUE, isInt |-> FALSE, v |-> Tenths(y)]
             n == IF f.v < 0 THEN -((-f.v) \div 10) ELSE f.v \div 10
         IN IF ~f.ok THEN NA
            ELSE IF 0 <= n /\ n < 40 THEN StrCell(<<"2", "0">> \o FmtD(n, 2))
            ELSE IF 40 <= n /\ n < 100 THEN StrCell(<<"1", "9">> \o FmtD(n, 2))
            ELSE StrCell(FmtD(n, 4))

\* lines 114-142; ok is FALSE when astype(int) raises
replace_missing_month_day_year(t) ==
    LET cellOf(c, i) == IF HasCol(t, c) THEN t.rows[i][c] ELSE NA
        fails == \E i \in 1..NRows(t) : \E c \in {"month", "day"} : HasCol(t, c) /\ MonthDayFails(t.rows[i][c])
        t1 == SetCol(t, "month", [i \in 1..NRows(t) |-> MonthDayCell(cellOf("month", i))])
        t2 == SetCol(t1, "day", [i \in 1..NRows(t) |-> MonthDayCell(cellOf("day", i))])
        t3 == SetCol(t2, "year", [i \in 1..NRows(t) |-> normalize_year(cellOf("year", i))])
    IN IF fails THEN [ok |-> FALSE, t |-> NoneDF] ELSE [ok |-> TRUE, t |-> t3]

\* a concatenation that prints a null year as text
DateOfRowEmbedsNull(r) ==
    StrCell((IF IsNA(r["year"]) THEN NoneText ELSE r["year"].s)
            \o <<"-">> \o r["month"].s \o <<"-">> \o r["day"].s)

\* lines 154-157: "" + year + "-" + month + "-" + day; pandas adds object
\* columns cell by cell and leaves a null where an operand is null
DateOfRow(r) ==
    IF IsNA(r["year"]) THEN NA
    ELSE StrCell(r["year"].s \o <<"-">> \o r["month"].s \o <<"-">> \o r["day"].s)

\* lines 145-166
create_date_column(t) ==
    IF HasCol(t, "eventDate")
    THEN [ok |-> TRUE,
          t |-> RenameCol(SetCol(t, "eventDate",
                    [i \in 1..NRows(t) |->
                        StrCell(fix_event_date(CellStr(t.rows[i]["eventDate"], NanText)))]),
                    "eventDate", "date")]
    ELSE LET r == replace_missing_month_day_year(t)
         IN IF ~r.ok THEN r
            ELSE [ok |-> TRUE,
                  t |-> DropCols(SetCol(r.t, "date", [i \in 1..NRows(t) |-> DateOfRow(r.t.rows[i])]),
                                 {"year", "month", "day"})]

----------------------------------------------------------------------------
(* CoordinateNormalizer *)

\* lines 179-186 for one cell: float(str(x).replace(',', '.')) or None
CoordParse(x) == FloatParse(ReplaceComma(CellStr(x, NanText)))

CoordCell(x) == IF IsNA(x) THEN NA ELSE FltCell(CoordParse(x).v)

CoordFails(t, c) == HasCol(t, c) /\ \E i \in 1..NRows(t) : ~IsNA(t.rows[i][c]) /\ ~CoordParse(t.rows[i][c]).ok

ConvertCoord(t, c) ==
    IF HasCol(t, c) THEN SetCol(t, c, [i \in 1..NRows(t) |-> CoordCell(t.rows[i][c])]) ELSE t

IsEmptyText(x) == IsStr(x) /\ x.s = <<>>

\* lines 189-197; a null operand prints as nullText
create_point(lat, lon, nullText) ==
    IF IsEmptyText(lat) /\ IsEmptyText(lon) THEN NA
    ELSE IF IsEmptyText(lat) THEN StrCell(no_lat \o CellStr(lon, nullText))
    ELSE IF IsEmptyText(lon) THEN StrCell(CellStr(lat, nullText) \o no_long)
    ELSE StrCell(CellStr(lat, nullText) \o <<",", " ">> \o CellStr(lon, nullText))

\* pd.to_numeric(column, errors='coerce'): int64 when every cell is an
\* integer, else float64 with NaN where the cell is no number
ToNumeric(cells) ==
    LET num(x) == IF IsNum(x) THEN [ok |-> TRUE, isInt |-> x.k = "int", v |-> Tenths(x)]
                  ELSE IF IsStr(x) THEN FloatParse(x.s)
                  ELSE [ok |-> FALSE, isInt |-> FALSE, v |-> 0]
        allInt == \A i \in 1..Len(cells) : num(cells[i]).ok /\ num(cells[i]).isInt
    IN [i \in 1..Len(cells) |->
           IF ~num(cells[i]).ok THEN NA
           ELSE IF allInt THEN IntCell(num(cells[i]).v \div 10)
           ELSE FltCell(num(cells[i]).v)]

\* the sign flipped without abs()
NegOnly(x) ==
    IF x.k = "int" THEN IntCell(-x.v)
    ELSE IF x.k = "flt" THEN FltCell(-x.v)
    ELSE x

\* line 213 for one cell: -abs(x)
NegAbs(x) ==
    IF x.k = "int" THEN IntCell(-Abs(x.v))
    ELSE IF x.k = "flt" THEN FltCell(-Abs(x.v))
    ELSE x

\* lines 210-216 on the cells of the depth column
DepthStep(cells) == [i \in 1..Len(cells) |-> NegAbs(ToNumeric(cells)[i])]

\* lines 169-218; ok is FALSE when float() raises ValueError or the row
\* has no decimalLatitude (KeyError)
process_coordinates(t, nullText) ==
    LET t1 == ConvertCoord(t, "decimalLatitude")
        t2 == ConvertCoord(t1, "decimalLongitude")
        t3 == IF HasCol(t, "decimalLongitude")
              THEN SetCol(t2, "point",
                       [i \in 1..NRows(t) |->
                           create_point(t2.rows[i]["decimalLatitude"],
                                        t2.rows[i]["decimalLongitude"], nullText)])
              ELSE IF HasCol(t, "locality") THEN SetCol(t2, "point", Column(t2, "locality"))
              ELSE SetColConst(t2, "point", NA)
        t4 == IF HasCol(t3, "depth") THEN SetCol(t3, "depth", DepthStep(Column(t3, "depth"))) ELSE t3
    IN IF CoordFails(t, "decimalLatitude") \/ CoordFails(t, "decimalLongitude")
          \/ (HasCol(t, "decimalLongitude") /\ ~HasCol(t, "decimalLatitude"))
       THEN [ok |-> FALSE, t |-> NoneDF]
       ELSE [ok |-> TRUE, t |-> t4]

----------------------------------------------------------------------------
(* IdGenerator *)

\* [str(uuid.uuid4())[:18] for _ in range(n)]: n random identifiers.  Only
\* which of them are equal matters; collide chooses between n distinct
\* ones and a draw whose second identifier repeats the first.
NewIds(n, collide) ==
    [i \in 1..n |-> StrCell(<<"u">> \o NatStr(IF collide /\ i = 2 THEN 1 ELSE i))]

\* lines 221-244: the ValueError is caught and the table returned as it is
feature_of_interest_id_generator(t, collide) ==
    IF HasCol(t, "featureOfInterestId") THEN t
    ELSE SetCol(t, "featureOfInterestId", NewIds(NRows(t), collide))

\* lines 388-413
observation_id_generator(t, collide) ==
    IF t.none \/ HasCol(t, "observationId") THEN t
    ELSE SetCol(t, "observationId", NewIds(NRows(t), collide))

----------------------------------------------------------------------------
(* ValueCleaner *)

\* line 253, the texts among invalid_values
invalid_values == {T_NaN, T_NAN, T_none, T_empty, T_Null, <<>>}

\* line 254: replace(invalid_values, pd.NA); None in the list matches a null
IsPlaceholder(x) == IsNA(x) \/ (IsStr(x) /\ x.s \in invalid_values)

ReplaceInvalid(x) == IF IsPlaceholder(x) THEN NA ELSE x

\* the numeric value only, as under keep_strings=False
CleanedCellNumericOnly(numeric, value) == numeric

\* lines 266-274 for one row: the numeric value when there is one, else the
\* value after the replacement
CleanedCell(numeric, value) == IF ~IsNA(numeric) THEN numeric ELSE value

\* a cleaner that drops no row
CleanWithoutDrop(t, keep_strings) ==
    IF ~HasCol(t, "measurementValue") THEN t
    ELSE LET replaced == [i \in 1..NRows(t) |-> ReplaceInvalid(t.rows[i]["measurementValue"])]
             numeric == ToNumeric(replaced)
         IN SetCol(t, "measurementValue",
                   [i \in 1..NRows(t) |-> CleanedCell(numeric[i], replaced[i])])

\* lines 248-289; a table without measurementValue raises KeyError and is
\* returned as it is
clean_and_infer_measurement_values(t, keep_strings) ==
    IF ~HasCol(t, "measurementValue") THEN t
    ELSE LET replaced == [i \in 1..NRows(t) |-> ReplaceInvalid(t.rows[i]["measurementValue"])]
             numeric == ToNumeric(replaced)
             cleaned == [i \in 1..NRows(t) |-> CleanedCell(numeric[i], replaced[i])]
             d1 == SetCol(SetCol(SetCol(t, "measurementValue", replaced),
                                 "numericValue", numeric), "measurementValue_cleaned", cleaned)
             kept == {i \in 1..NRows(t) : ~IsNA(cleaned[i])}
             d2 == Table(d1.cols, SelectRows(d1.rows, kept, 1))
             d3 == SetCol(d2, "measurementValue", Column(d2, "measurementValue_cleaned"))
             numKept == {i \in 1..NRows(t) : ~IsNA(numeric[i])}
             n1 == SetCol(t, "measurementValue", replaced)
             n2 == Table(n1.cols, SelectRows(n1.rows, numKept, 1))
         IN IF keep_strings
            THEN DropCols(d3, {"numericValue", "measurementValue_cleaned"})
            ELSE SetCol(n2, "measurementValue", SelectRows(numeric, numKept, 1))

----------------------------------------------------------------------------
(* MeasurementMelter *)

\* the text of a column name, as a cell
NameCell(c) == StrCell(<<c>>)

\* the dtype pd.melt gives the value column: integers become floats when
\* the melted columns are all numeric and not all int64
MeltValue(t, value_vars, x) ==
    LET kinds == {t.rows[i][value_vars[j]].k : i \in 1..NRows(t), j \in 1..Len(value_vars)}
    IN IF x.k = "int" /\ "str" \notin kinds /\ kinds # {"int"} THEN FltCell(10 * x.v) ELSE x

\* pd.melt(df, id_vars, value_vars, var_name, value_name): one row per
\* value column and input row, column by column
Melt(t, id_vars, value_vars, var_name, value_name) ==
    LET n == NRows(t)
        ids == {id_vars[i] : i \in 1..Len(id_vars)}
    IN Table(id_vars \o <<var_name, value_name>>,
             [m \in 1..(n * Len(value_vars)) |->
                 LET j == ((m - 1) \div n) + 1
                     i == ((m - 1) % n) + 1
                 IN [c \in ids \cup {var_name, value_name} |->
                        IF c = var_name THEN NameCell(value_vars[j])
                        ELSE IF c = value_name THEN MeltValue(t, value_vars, t.rows[i][value_vars[j]])
                        ELSE t.rows[i][c]]])

\* the merge with propertyUrl taken from "unit"
MergeTraitsUrlFromUnit(t) ==
    LET entry(i) == TraitDict[t.rows[i]["propertyName"].s[1]]
        a == SetCol(t, "propertyLabel", [i \in 1..NRows(t) |-> StrCell(entry(i).label)])
        b == SetCol(a, "propertyDefinition", [i \in 1..NRows(t) |-> StrCell(entry(i).definition)])
        c == SetCol(b, "measurementUnit", [i \in 1..NRows(t) |-> StrCell(entry(i).unit)])
    IN SetCol(c, "propertyUrl", [i \in 1..NRows(t) |-> StrCell(entry(i).unit)])

\* lines 355-367: the left merge with the trait dictionary on propertyName
MergeTraits(t) ==
    LET entry(i) == TraitDict[t.rows[i]["propertyName"].s[1]]
        a == SetCol(t, "propertyLabel", [i \in 1..NRows(t) |-> StrCell(entry(i).label)])
        b == SetCol(a, "propertyDefinition", [i \in 1..NRows(t) |-> StrCell(entry(i).definition)])
        c == SetCol(b, "measurementUnit", [i \in 1..NRows(t) |-> StrCell(entry(i).unit)])
    IN SetCol(c, "propertyUrl", [i \in 1..NRows(t) |-> StrCell(entry(i).type)])

measurement_list(t) == FilterSeq(t.cols, TraitKeys)
non_measurement_list(t) == FilterSeq(t.cols, ColSet(t) \ TraitKeys)

\* Fallback A with the cleaner applied to measurementValue
FallbackAWithCleaner(t, collide) ==
    LET d == RenameCol(RenameCol(observation_id_generator(
                                     clean_and_infer_measurement_values(t, TRUE), collide),
                                 "measurementType", "propertyName"),
                       "measurementTypeID", "propertyUrl")
    IN IF ~HasCol(d, "propertyName") THEN d
       ELSE SetColConst(SetCol(d, "propertyLabel", Column(d, "propertyName")),
                        "propertyDefinition", NA)

\* lines 317-328; df['propertyLabel'] = df['propertyName'] raises KeyError
\* when there is no propertyName, and the handler returns the table bound
\* to df at that point
FallbackA(t, collide) ==
    LET d == RenameCol(RenameCol(observation_id_generator(t, collide),
                                 "measurementType", "propertyName"),
                       "measurementTypeID", "propertyUrl")
    IN IF ~HasCol(d, "propertyName") THEN d
       ELSE SetColConst(SetCol(d, "propertyLabel", Column(d, "propertyName")),
                        "propertyDefinition", NA)

\* lines 330-341
FallbackB(t, collide) ==
    LET d == observation_id_generator(t, collide)
        a == SetColConst(SetColConst(SetColConst(d, "propertyName", NA), "measurementValue", NA),
                         "propertyLabel", NA)
    IN SetColConst(SetColConst(SetColConst(a, "propertyDefinition", NA), "measurementUnit", NA),
                   "propertyUrl", NA)

\* lines 343-367: the table handed to the cleaner
MergedTable(t) ==
    MergeTraits(Melt(t, non_measurement_list(t), measurement_list(t),
                     "propertyName", "measurementValue"))

\* pd.melt raises ValueError when value_name is already a column
MeltRaises(t) == HasCol(t, "measurementValue")

\* lines 294-385
measurement_attribute_preparation(t, trait, collide) ==
    IF trait # "ok" THEN t                       \* FileNotFoundError, JSONDecodeError
    ELSE IF t.none THEN t                        \* AttributeError
    ELSE IF measurement_list(t) = <<>>
         THEN IF HasCol(t, "measurementValue") THEN FallbackA(t, collide) ELSE FallbackB(t, collide)
    ELSE IF MeltRaises(t) THEN t
    ELSE observation_id_generator(
             clean_and_infer_measurement_values(MergedTable(t), TRUE), collide)

----------------------------------------------------------------------------
(* TaxonomyMelter *)

taxonomy_columns(t) == FilterSeq(t.cols, TaxonomyList)
non_taxonomy_columns(t) == FilterSeq(t.cols, ColSet(t) \ TaxonomyList)

LowerCell(x) == IF IsStr(x) THEN StrCell(Lower(x.s)) ELSE x

\* lines 429-475
TaxonomyBranch1(t) ==
    LET d1 == SetCol(t, "taxonRank", [i \in 1..NRows(t) |-> LowerCell(t.rows[i]["taxonRank"])])
        d2 == SetCol(d1, "taxon", Column(d1, "acceptedNameUsage"))
        melted == RenameCol(RenameCol(
                      DropCols(Melt(d2, non_taxonomy_columns(d2), taxonomy_columns(d2),
                                    "temp_taxonRank", "temp_taxon"),
                               {"taxon", "taxonRank"}),
                      "temp_taxonRank", "taxonRank"), "temp_taxon", "taxon")
        d3 == DropCols(d2, TaxonomyList)
    IN IF NRows(t) > 0 /\ \A i \in 1..NRows(t) : ~IsStr(t.rows[i]["taxonRank"])
       THEN NoneDF                                   \* .str on a float column: AttributeError
       ELSE IF ~HasCol(t, "acceptedNameUsage") THEN NoneDF                     \* ValueError
       ELSE IF taxonomy_columns(d2) = <<>> THEN d2
       ELSE Table(d3.cols, d3.rows \o melted.rows)

\* lines 497-504: pd.melt raises ValueError when value_name is already a
\* column
TaxonMeltRaises(t) == HasCol(t, "taxon")

\* Branch 2 without line 492
TaxonomyBranch2NoTaxon(t) ==
    IF taxonomy_columns(t) = <<>>
    THEN SetColConst(t, "taxonRank", NA)
    ELSE IF TaxonMeltRaises(t) THEN NoneDF
    ELSE Melt(t, non_taxonomy_columns(t), taxonomy_columns(t), "taxonRank", "taxon")

\* Branch 2 melting with every column as an identifier column
TaxonomyBranch2KeepsRankColumns(t) ==
    IF taxonomy_columns(t) = <<>>
    THEN SetColConst(SetColConst(t, "taxonRank", NA), "taxon", NA)
    ELSE IF TaxonMeltRaises(t) THEN NoneDF
    ELSE Melt(t, t.cols, taxonomy_columns(t), "taxonRank", "taxon")

\* Branch 2 that leaves an existing taxon column as it is
TaxonomyBranch2KeepsTaxon(t) ==
    IF taxonomy_columns(t) = <<>>
    THEN IF HasCol(t, "taxon") THEN SetColConst(t, "taxonRank", NA)
         ELSE SetColConst(SetColConst(t, "taxonRank", NA), "taxon", NA)
    ELSE IF TaxonMeltRaises(t) THEN NoneDF
    ELSE Melt(t, non_taxonomy_columns(t), taxonomy_columns(t), "taxonRank", "taxon")

\* lines 476-508
TaxonomyBranch2(t) ==
    IF taxonomy_columns(t) = <<>>
    THEN SetColConst(SetColConst(t, "taxonRank", NA), "taxon", NA)
    ELSE IF TaxonMeltRaises(t) THEN NoneDF          \* ValueError, handled at 514
    ELSE Melt(t, non_taxonomy_columns(t), taxonomy_columns(t), "taxonRank", "taxon")

\* handlers that return the table they were given
TaxonomyReturnsInputOnError(t, tax) ==
    IF tax # "ok" THEN t
    ELSE IF t.none THEN t
    ELSE LET r == IF HasCol(t, "taxonRank") THEN TaxonomyBranch1(t) ELSE TaxonomyBranch2(t)
         IN IF r.none THEN t ELSE r

\* lines 416-515: every handler ends without a return, so an error gives None
taxonomy_attribution_preparation(t, tax) ==
    IF tax # "ok" THEN NoneDF
    ELSE IF t.none THEN NoneDF
    ELSE IF HasCol(t, "taxonRank") THEN TaxonomyBranch1(t)
    ELSE TaxonomyBranch2(t)

----------------------------------------------------------------------------
(* NullNormalizer *)

\* a pass that also nulls the placeholder tokens
NormalizeCellPlaceholders(x) ==
    IF IsNA(x) \/ IsEmptyText(x) \/ IsPlaceholder(x) THEN NA ELSE x

\* line 520 for one cell
NormalizeCell(x) == IF IsNA(x) \/ IsEmptyText(x) THEN NA ELSE x

\* lines 518-523; None.map raises AttributeError and None is returned
normalize_empty_values(t) ==
    IF t.none THEN t
    ELSE Table(t.cols, [i \in 1..NRows(t) |-> [c \in ColSet(t) |-> NormalizeCell(t.rows[i][c])]])

----------------------------------------------------------------------------
(* The workflow: run_dataset_transformation_mapping_workflow and the part   *)
(* of data_preparation that calls the first three stages                    *)

\* the stages in the order the code calls them
StageOrder == <<"date", "coords", "featureId", "measure", "taxonomy", "normalize", "save">>

StageIndex(s) == CHOOSE i \in 1..Len(StageOrder) : StageOrder[i] = s

\* a workflow that persists right after TaxonomyMelter
NextStageSkippingNormalize(s) ==
    IF s = "save" THEN "done"
    ELSE IF s = "taxonomy" THEN "save"
    ELSE StageOrder[StageIndex(s) + 1]

\* the stage the code calls after stage s
NextStage(s) == IF s = "save" THEN "done" ELSE StageOrder[StageIndex(s) + 1]

\* data_preparation's handlers (lines 69-78) end the three first stages:
\* the workflow goes on with None
AfterPreparation(s, ok) == IF ok THEN NextStage(s) ELSE "measure"

Init ==
    /\ \E p \in Profiles : \E n \in 1..MaxRows :
          /\ raw \in {[cols |-> p.cols, rows |-> rs] : rs \in [1..n -> RowsOver(p.cols, p.full)]}
          /\ traitFile \in (IF p.files THEN FileStates ELSE {"ok"})
          /\ taxFile \in (IF p.files THEN FileStates ELSE {"ok"})
    /\ pc = "load"
    /\ df = NoneDF
    /\ prev = NoneDF
    /\ log = <<>>
    /\ saved = FALSE
    /\ out = NoneDF

Step(stage, result, next) ==
    /\ pc = stage
    /\ prev' = df
    /\ df' = result
    /\ pc' = next
    /\ log' = Append(log, stage)
    /\ UNCHANGED <<raw, traitFile, taxFile, saved, out>>

DataPreparationLoad ==
    /\ pc = "load"
    /\ df' = LoadTable(raw)
    /\ pc' = "date"
    /\ UNCHANGED <<raw, traitFile, taxFile, prev, log, saved, out>>

CreateDateColumn ==
    LET r == create_date_column(df)
    IN Step("date", r.t, AfterPreparation("date", r.ok))

ProcessCoordinates ==
    \E nullText \in {NanText, NoneText} :
        LET r == process_coordinates(df, nullText)
        IN Step("coords", r.t, AfterPreparation("coords", r.ok))

FeatureOfInterestId ==
    \E collide \in BOOLEAN :
        Step("featureId", feature_of_interest_id_generator(df, collide),
             AfterPreparation("featureId", TRUE))

MeasurementAttributePreparation ==
    \E collide \in BOOLEAN :
        Step("measure", measurement_attribute_preparation(df, traitFile, collide),
             NextStage("measure"))

TaxonomyAttributionPreparation ==
    Step("taxonomy", taxonomy_attribution_preparation(df, taxFile), NextStage("taxonomy"))

NormalizeEmptyValues ==
    Step("normalize", normalize_empty_values(df), NextStage("normalize"))

\* lines 30-36
SaveDataframe ==
    /\ pc = "save"
    /\ ~df.none
    /\ saved' = TRUE
    /\ out' = df
    /\ pc' = NextStage("save")
    /\ log' = Append(log, "save")
    /\ UNCHANGED <<raw, traitFile, taxFile, df, prev>>

\* lines 37-38
NoDataframe ==
    /\ pc = "save"
    /\ df.none
    /\ pc' = NextStage("save")
    /\ UNCHANGED <<raw, traitFile, taxFile, df, prev, log, saved, out>>

Next ==
    \/ DataPreparationLoad
    \/ CreateDateColumn
    \/ ProcessCoordinates
    \/ FeatureOfInterestId
    \/ MeasurementAttributePreparation
    \/ TaxonomyAttributionPreparation
    \/ NormalizeEmptyValues
    \/ SaveDataframe
    \/ NoDataframe

Spec == Init /\ [][Next]_vars

----------------------------------------------------------------------------
(* Properties *)

Ran(stage) == \E i \in 1..Len(log) : log[i] = stage

\* stage has just returned a table
Returned(stage) == log # <<>> /\ log[Len(log)] = stage /\ ~df.none

----------------------------------------------------------------------------

\* the two-digit-year rule as the specification states it
RuleYear(y) == IF y < 40 THEN 2000 + y ELSE IF y < 100 THEN 1900 + y ELSE y

RuleDate(year, month, day) == IntStr(RuleYear(IntParse(year).v)) \o <<"-">> \o month \o <<"-">> \o day

\* the text fix_event_date received for row i and the text it returned
DateIn(i) == CellStr(prev.rows[i]["eventDate"], NanText)
DateOut(i) == df.rows[i]["date"].s

FreeTextDone == Returned("date") /\ HasCol(prev, "eventDate")

C3_Examples ==
    \A i \in 1..NRows(df) :
        /\ DateIn(i) = D_15_06_23 => DateOut(i) = R_2023_06_15
        /\ DateIn(i) = D_15_06_99 => DateOut(i) = R_1999_06_15
        /\ DateIn(i) = D_2020_06_15 => DateOut(i) = D_2020_06_15
        /\ DateIn(i) = D_not_a_date => DateOut(i) = InvalidDate

\* C3 as claimed: every d/m/y with an integer year, and every y-m-d whose
\* first part has not 4 characters, is rewritten by the two-digit-year rule;
\* every value whose first '-'-separated part has 4 characters is returned
\* unchanged.
C3_AsClaimed ==
    FreeTextDone =>
        /\ C3_Examples
        /\ \A i \in 1..NRows(df) :
              LET s == DateIn(i)
                  sl == Split(s, "/")
                  da == Split(s, "-")
              IN /\ (Len(sl) = 3 /\ IntParse(sl[3]).ok) => DateOut(i) = RuleDate(sl[3], sl[2], sl[1])
                 /\ (Len(da) = 3 /\ Len(da[1]) # 4 /\ IntParse(da[1]).ok)
                        => DateOut(i) = RuleDate(da[1], da[2], da[3])
                 /\ (Contains(s, "-") /\ Len(da[1]) = 4) => DateOut(i) = s

\* C3, amended: the two-digit-year rule holds for a year that is not
\* negative, and the two '-' rules hold for a value that contains no '/'.
C3_TwoDigitYearRule ==
    FreeTextDone =>
        /\ C3_Examples
        /\ \A i \in 1..NRows(df) :
              LET s == DateIn(i)
                  sl == Split(s, "/")
                  da == Split(s, "-")
              IN /\ (Len(sl) = 3 /\ IntParse(sl[3]).ok /\ IntParse(sl[3]).v >= 0)
                        => DateOut(i) = RuleDate(sl[3], sl[2], sl[1])
                 /\ (~Contains(s, "/") /\ Len(da) = 3 /\ Len(da[1]) # 4
                        /\ IntParse(da[1]).ok /\ IntParse(da[1]).v >= 0)
                        => DateOut(i) = RuleDate(da[1], da[2], da[3])
                 /\ (~Contains(s, "/") /\ Contains(s, "-") /\ Len(da[1]) = 4) => DateOut(i) = s

C3_Witness ==
    /\ FreeTextDone
    /\ NRows(df) = 2
    /\ DateIn(1) = D_15_06_40 /\ DateOut(1) = <<"1", "9", "4", "0", "-", "0", "6", "-", "1", "5">>
    /\ DateIn(2) = D_23_06_15 /\ DateOut(2) = R_2023_06_15

----------------------------------------------------------------------------

\* year-month-day text: a 4-digit year and month and day of one or two digits
IsYMD(s) ==
    LET parts == Split(s, "-")
    IN /\ Len(parts) = 3
       /\ AllDigits(parts[1]) /\ Len(parts[1]) = 4
       /\ AllDigits(parts[2]) /\ Len(parts[2]) <= 2
       /\ AllDigits(parts[3]) /\ Len(parts[3]) <= 2

\* C4 as claimed: after DateNormalizer returns, the table has a date column
\* and every row's date is a year-month-day text or 'InvalidDate'.
C4_AsClaimed ==
    Returned("date") =>
        /\ HasCol(df, "date")
        /\ \A i \in 1..NRows(df) :
              /\ IsStr(df.rows[i]["date"])
              /\ IsYMD(df.rows[i]["date"].s) \/ df.rows[i]["date"].s = InvalidDate

----------------------------------------------------------------------------

\* C5 as claimed: point is computed from the presence of the parsed latitude
\* and longitude: both give "<lat>, <lon>", only the longitude gives
\* "NaN, <lon>", only the latitude gives "<lat>, NaN", neither gives null.
C5_AsClaimed ==
    (Returned("coords") /\ HasCol(prev, "decimalLongitude")) =>
        \A i \in 1..NRows(df) :
            LET lat == df.rows[i]["decimalLatitude"]
                lon == df.rows[i]["decimalLongitude"]
                point == df.rows[i]["point"]
            IN /\ (~IsNA(lat) /\ ~IsNA(lon)) =>
                      point = StrCell(FloatStr(lat.v) \o <<",", " ">> \o FloatStr(lon.v))
               /\ (IsNA(lat) /\ ~IsNA(lon)) => point = StrCell(no_lat \o FloatStr(lon.v))
               /\ (~IsNA(lat) /\ IsNA(lon)) => point = StrCell(FloatStr(lat.v) \o no_long)
               /\ (IsNA(lat) /\ IsNA(lon)) => point = NA
               /\ (prev.rows[i]["decimalLatitude"] = StrCell(T_40c5)
                      /\ prev.rows[i]["decimalLongitude"] = StrCell(T_m3c7))
                     => (lat = FltCell(405) /\ lon = FltCell(-37) /\ point = StrCell(P_40p5_m3p7))

----------------------------------------------------------------------------

\* the number a depth cell of the input stands for, if any
DepthNumber(x) ==
    IF IsNum(x) THEN [ok |-> TRUE, v |-> Tenths(x)]
    ELSE IF IsStr(x) THEN [ok |-> FloatParse(x.s).ok, v |-> FloatParse(x.s).v]
    ELSE [ok |-> FALSE, v |-> 0]

DepthDone == Returned("coords") /\ HasCol(prev, "depth")

\* C6: when a depth column exists, after CoordinateNormalizer a row's depth
\* is null if the input was missing or no number and else the negative of
\* the input's absolute value; no depth is above 0; the depth step applied
\* to its own result changes nothing.
C6_DepthNegativeDown ==
    DepthDone =>
        /\ \A i \in 1..NRows(df) :
              LET x == prev.rows[i]["depth"]
                  d == df.rows[i]["depth"]
              IN /\ ~DepthNumber(x).ok => IsNA(d)
                 /\ DepthNumber(x).ok => (IsNum(d) /\ Tenths(d) = -Abs(DepthNumber(x).v))
                 /\ ~IsNA(d) => Tenths(d) <= 0
        /\ DepthStep(Column(df, "depth")) = Column(df, "depth")

C6_Witness ==
    /\ DepthDone
    /\ NRows(df) = 2
    /\ prev.rows[1]["depth"] = StrCell(T_m2p5) /\ df.rows[1]["depth"] = FltCell(-25)
    /\ prev.rows[2]["depth"] = StrCell(T_deep) /\ IsNA(df.rows[2]["depth"])

----------------------------------------------------------------------------

RawCols == {raw.cols[i] : i \in 1..Len(raw.cols)}

\* the missing values and placeholder tokens the specification lists
PlaceholderTokens == {T_NaN, T_NAN, T_none, T_empty, T_Null, <<>>}

MissingValue(x) == IsNA(x) \/ (IsStr(x) /\ x.s \in PlaceholderTokens)

MissingText(s) == IsNaText(s) \/ Strip(s) \in PlaceholderTokens

\* the column names the pipeline creates or reads as its own
ReservedNames ==
    {"taxonRank", "taxon", "measurementValue", "propertyName", "propertyLabel",
     "propertyDefinition", "measurementUnit", "propertyUrl", "date", "point",
     "numericValue", "measurementValue_cleaned"}

\* an input with eventDate, decimalLatitude, decimalLongitude, exactly one
\* trait column without missing values and no column of the taxonomy list
C2Input ==
    /\ {"eventDate", "decimalLatitude", "decimalLongitude"} \subseteq RawCols
    /\ Cardinality(RawCols \cap TraitKeys) = 1
    /\ \A c \in RawCols \cap TraitKeys : \A i \in 1..Len(raw.rows) : ~MissingText(raw.rows[i][c])
    /\ RawCols \cap TaxonomyList = {}
    /\ traitFile = "ok" /\ taxFile = "ok"

C2Output(t) ==
    /\ {"date", "point", "featureOfInterestId", "observationId", "propertyName",
        "propertyLabel", "propertyDefinition", "measurementUnit", "propertyUrl",
        "measurementValue", "taxonRank", "taxon"} \subseteq ColSet(t)
    /\ \A i \in 1..NRows(t) :
          LET r == t.rows[i]
              trait == CHOOSE c \in RawCols \cap TraitKeys : TRUE
          IN /\ \A c \in {"date", "point", "featureOfInterestId", "observationId",
                          "measurementValue"} : ~IsNA(r[c])
             /\ r["propertyName"] = NameCell(trait)
             /\ r["propertyLabel"] = StrCell(TraitDict[trait].label)
             /\ r["propertyDefinition"] = StrCell(TraitDict[trait].definition)
             /\ r["measurementUnit"] = StrCell(TraitDict[trait].unit)
             /\ r["propertyUrl"] = StrCell(TraitDict[trait].type)
             /\ IsNA(r["taxonRank"]) /\ IsNA(r["taxon"])

----------------------------------------------------------------------------

\* MeasurementMelter has returned from its melt branch
MeltDone ==
    /\ Returned("measure") /\ traitFile = "ok" /\ ~prev.none
    /\ measurement_list(prev) # <<>> /\ ~MeltRaises(prev)

\* the i-th smallest member of a set of numbers
Nth(S, i) == CHOOSE n \in S : Cardinality({k \in S : k < n}) = i - 1

\* the number a measurement cell stands for, if any
Coerced(x) == DepthNumber(x)

\* y is the value x after ValueCleaner: the number when x is one, else x
SameValue(y, x) ==
    IF Coerced(x).ok THEN IsNum(y) /\ Tenths(y) = Coerced(x).v ELSE y = x

\* C7: under keep-strings ValueCleaner returns exactly the rows whose
\* measurementValue is no placeholder, in their order, each with the number
\* when coercion succeeds and the original text otherwise; no returned row
\* has a null measurementValue and no helper column remains.
C7_ValueCleanerKeepStrings ==
    MeltDone =>
        LET m == MergedTable(prev)
            c == clean_and_infer_measurement_values(m, TRUE)
            keep == {i \in 1..NRows(m) : ~MissingValue(m.rows[i]["measurementValue"])}
        IN /\ c.cols = m.cols
           /\ NRows(c) = Cardinality(keep)
           /\ \A j \in 1..NRows(c) :
                 LET i == Nth(keep, j)
                 IN /\ DOMAIN c.rows[j] = ColSet(m)
                    /\ \A col \in ColSet(m) \ {"measurementValue"} : c.rows[j][col] = m.rows[i][col]
                    /\ SameValue(c.rows[j]["measurementValue"], m.rows[i]["measurementValue"])
                    /\ ~IsNA(c.rows[j]["measurementValue"])

C7_Witness ==
    /\ MeltDone
    /\ LET m == MergedTable(prev)
           c == clean_and_infer_measurement_values(m, TRUE)
       IN /\ NRows(m) = 4 /\ NRows(c) = 2
          /\ m.rows[1]["measurementValue"] = StrCell(T_abc)
          /\ MissingValue(m.rows[2]["measurementValue"])
          /\ m.rows[3]["measurementValue"] = StrCell(T_none)
          /\ c.rows[1]["measurementValue"] = StrCell(T_abc)
          /\ c.rows[2]["measurementValue"] = FltCell(35)

----------------------------------------------------------------------------

\* the (measurement column, input row) pairs whose cell is not missing, in
\* the order of the melt: column by column, row by row
SurvivingPairs ==
    LET ml == measurement_list(prev)
        n == NRows(prev)
        all == {m \in 1..(n * Len(ml)) :
                   ~MissingValue(prev.rows[((m - 1) % n) + 1][ml[((m - 1) \div n) + 1]])}
    IN [p \in 1..Cardinality(all) |->
           [col |-> ml[((Nth(all, p) - 1) \div n) + 1], row |-> ((Nth(all, p) - 1) % n) + 1]]

C8_Example ==
    (MeltDone /\ NRows(prev) = 1 /\ Len(measurement_list(prev)) = 1
        /\ prev.rows[1]["height"] = IntCell(12))
    => (NRows(df) = 1 /\ df.rows[1]["propertyName"] = NameCell("height")
            /\ df.rows[1]["measurementValue"] = IntCell(12))

----------------------------------------------------------------------------

\* C9 as claimed: after MeasurementMelter returns from its main branch or a
\* fallback, every row has an observationId and no two rows share one.
C9_AsClaimed ==
    (Returned("measure") /\ traitFile = "ok" /\ ~prev.none /\ ~MeltRaises(prev)) =>
        /\ HasCol(df, "observationId")
        /\ \A i \in 1..NRows(df) : ~IsNA(df.rows[i]["observationId"])
        /\ \A i, j \in 1..NRows(df) :
              i # j => df.rows[i]["observationId"] # df.rows[j]["observationId"]

----------------------------------------------------------------------------

\* the melted columns of which some cell survives cleaning
SurvivingColumns == {SurvivingPairs[p].col : p \in 1..Len(SurvivingPairs)}

\* C10 as claimed: after a melt branch the row count is the input row count
\* times the number of melted columns that survive cleaning.
C10_AsClaimed == MeltDone => NRows(df) = NRows(prev) * Cardinality(SurvivingColumns)

\* C10, amended: after a melt branch the row count is the number of (input
\* row, melted column) cells that are not missing: the input row count
\* times the number of melted columns, less the missing cells.
C10_RowCountIsSurvivingCells ==
    MeltDone =>
        LET ml == measurement_list(prev)
            missing == {<<i, j>> \in (1..NRows(prev)) \X (1..Len(ml)) : MissingValue(prev.rows[i][ml[j]])}
        IN NRows(df) = NRows(prev) * Len(ml) - Cardinality(missing)

C10_Witness ==
    /\ MeltDone
    /\ NRows(prev) = 2 /\ Len(measurement_list(prev)) = 2 /\ NRows(df) = 3
    /\ Cardinality(SurvivingColumns) = 2

----------------------------------------------------------------------------

\* C11 as claimed: when the trait-dictionary file is missing or malformed,
\* MeasurementMelter aborts the pipeline: TaxonomyMelter and NullNormalizer
\* do not run and no table is persisted.
C11_AsClaimed ==
    (traitFile # "ok" /\ Ran("measure")) =>
        (~Ran("taxonomy") /\ ~Ran("normalize") /\ ~saved)

----------------------------------------------------------------------------

\* an unexpected error is raised inside MeasurementMelter on table t: the
\* KeyError of Fallback A without measurementType, the ValueError of pd.melt
MeasureRaises(t) ==
    \/ /\ measurement_list(t) = <<>> /\ HasCol(t, "measurementValue")
       /\ ~HasCol(t, "measurementType") /\ ~HasCol(t, "propertyName")
    \/ measurement_list(t) # <<>> /\ HasCol(t, "measurementValue")

\* C12 as claimed: whenever an unexpected error occurs inside
\* MeasurementMelter, Fallback A without measurementType included, the
\* stage returns a table identical to its input: same columns, same rows,
\* same values.
C12_AsClaimed ==
    (Returned("measure") /\ traitFile = "ok" /\ ~prev.none /\ MeasureRaises(prev)) => df = prev

----------------------------------------------------------------------------

\* TaxonomyMelter has just been applied to a table with no column of the
\* recognized taxonomy set
NoRecognizedColumn ==
    /\ log # <<>> /\ log[Len(log)] = "taxonomy"
    /\ taxFile = "ok" /\ ~prev.none /\ taxonomy_columns(prev) = <<>>

TaxonomyNull ==
    /\ ~df.none
    /\ NRows(df) = NRows(prev)
    /\ HasCol(df, "taxonRank") /\ HasCol(df, "taxon")
    /\ \A i \in 1..NRows(df) : IsNA(df.rows[i]["taxonRank"]) /\ IsNA(df.rows[i]["taxon"])

----------------------------------------------------------------------------

\* a parsing or reshape error is raised inside TaxonomyMelter on table t:
\* .str on a taxonRank column without text, pd.melt onto an existing taxon
TaxonomyRaises(t) ==
    \/ /\ HasCol(t, "taxonRank") /\ NRows(t) > 0
       /\ \A i \in 1..NRows(t) : ~IsStr(t.rows[i]["taxonRank"])
    \/ ~HasCol(t, "taxonRank") /\ taxonomy_columns(t) # <<>> /\ HasCol(t, "taxon")

\* C14 as claimed: when a parsing or reshape error occurs inside
\* TaxonomyMelter the stage returns its input unchanged, NullNormalizer and
\* persistence still run on it, and an output table is persisted.
C14_AsClaimed ==
    /\ (log # <<>> /\ log[Len(log)] = "taxonomy" /\ taxFile = "ok" /\ ~prev.none
            /\ TaxonomyRaises(prev)) => df = prev
    /\ (pc = "done" /\ taxFile = "ok" /\ traitFile = "ok"
            /\ {"taxon", "genus"} \subseteq RawCols /\ "taxonRank" \notin RawCols) => saved

----------------------------------------------------------------------------

\* C15 as claimed: IdGenerator on a table that already has the target
\* column leaves the table unmodified and fails with an error that is
\* fatal to the caller, so that the run persists no table.
C15_AsClaimed ==
    /\ (log # <<>> /\ log[Len(log)] = "featureId" /\ ~prev.none
            /\ HasCol(prev, "featureOfInterestId")) => df = prev
    /\ "featureOfInterestId" \in RawCols => ~saved
    /\ "observationId" \in RawCols => ~saved

----------------------------------------------------------------------------

\* C16 as claimed: after NullNormalizer no cell of any column holds the
\* empty string or a placeholder token ('NaN', 'NAN', 'none', 'empty',
\* 'Null'): every missing value is the null sentinel.
C16_AsClaimed ==
    Returned("normalize") =>
        \A i \in 1..NRows(df) : \A c \in ColSet(df) :
            ~(IsStr(df.rows[i][c]) /\ df.rows[i][c].s \in PlaceholderTokens)

----------------------------------------------------------------------------

\* C17: NullNormalizer is idempotent and changes no cell that is neither
\* null nor the empty string: for every table T the pipeline holds,
\* NullNormalizer(NullNormalizer(T)) = NullNormalizer(T), and
\* NullNormalizer(T) has T's columns and rows with every such cell as in T.
C17_NullNormalizerIdempotent ==
    ~df.none =>
        LET n == normalize_empty_values(df)
        IN /\ normalize_empty_values(n) = n
           /\ n.cols = df.cols /\ NRows(n) = NRows(df)
           /\ \A i \in 1..NRows(df) : \A c \in ColSet(df) :
                 (~IsNA(df.rows[i][c]) /\ df.rows[i][c] # StrCell(<<>>))
                     => n.rows[i][c] = df.rows[i][c]
           /\ Returned("normalize") => df = n

\* NullNormalizer has replaced an empty string in a table that also holds
\* nulls and a placeholder token
C17_Witness ==
    /\ Returned("normalize") /\ ~prev.none /\ df # prev
    /\ \E i \in 1..NRows(prev) : prev.rows[i]["point"] = StrCell(<<>>) /\ IsNA(df.rows[i]["point"])
    /\ \E i \in 1..NRows(prev) : \E c \in ColSet(prev) : IsNA(prev.rows[i][c])
    /\ \E i \in 1..NRows(prev) : \E c \in ColSet(prev) : prev.rows[i][c] = StrCell(T_Rome)

----------------------------------------------------------------------------

\* a cell of the input fails coordinate parsing, or month or day parsing in
\* component mode
ParseFailure ==
    LET t == LoadTable(raw)
    IN \/ CoordFails(t, "decimalLatitude") \/ CoordFails(t, "decimalLongitude")
       \/ /\ ~HasCol(t, "eventDate")
          /\ \E i \in 1..NRows(t) : \E c \in {"month", "day"} :
                HasCol(t, c) /\ MonthDayFails(t.rows[i][c])

\* C18 as claimed: when a single cell fails coordinate or numeric parsing
\* the row is retained and the pipeline continues through all later stages
\* to persistence, with as many rows per input row as without the failure.
C18_AsClaimed ==
    (pc = "done" /\ traitFile = "ok" /\ taxFile = "ok" /\ ParseFailure) =>
        (saved /\ Ran("date") /\ Ran("coords") /\ Ran("featureId") /\ NRows(out) >= Len(raw.rows))

----------------------------------------------------------------------------

\* DateNormalizer has returned in component mode
ComponentDone == Returned("date") /\ ~prev.none /\ ~HasCol(prev, "eventDate")

\* the cell of column c in row i of the input, null when there is no column
InputCell(c, i) == IF HasCol(prev, c) THEN prev.rows[i][c] ELSE NA

\* the whole number a year cell stands for, if any
YearValue(x) ==
    IF IsNum(x) THEN [ok |-> TRUE, v |-> Tenths(x) \div 10]
    ELSE IF IsStr(x) /\ FloatParse(x.s).ok THEN [ok |-> TRUE, v |-> FloatParse(x.s).v \div 10]
    ELSE [ok |-> FALSE, v |-> 0]

\* 0..39 gives 20yy, 40..99 gives 19yy, otherwise four digits
YearText(y) ==
    IF y < 40 THEN <<"2", "0">> \o ZFill(NatStr(y), 2)
    ELSE IF y < 100 THEN <<"1", "9">> \o ZFill(NatStr(y), 2)
    ELSE ZFill(NatStr(y), 4)

\* month or day: 1 when missing, two digits
TwoDigits(x) == ZFill(NatStr(IF IsNA(x) THEN 1 ELSE AsInt(x).v), 2)

----------------------------------------------------------------------------

\* MeasurementMelter has just been applied to a table with no trait column
\* and a measurementValue column
FallbackADone ==
    /\ log # <<>> /\ log[Len(log)] = "measure"
    /\ traitFile = "ok" /\ ~prev.none
    /\ measurement_list(prev) = <<>> /\ HasCol(prev, "measurementValue")

FallbackAResult ==
    /\ ~df.none
    /\ NRows(df) = NRows(prev)
    /\ {"propertyName", "propertyLabel", "propertyDefinition", "observationId",
        "measurementValue"} \subseteq ColSet(df)
    /\ ColSet(df) \cap {"measurementType", "measurementTypeID"} = {}
    /\ HasCol(prev, "measurementTypeID") => HasCol(df, "propertyUrl")
    /\ \A i \in 1..NRows(df) :
          /\ HasCol(prev, "measurementType")
                => df.rows[i]["propertyName"] = prev.rows[i]["measurementType"]
          /\ HasCol(prev, "measurementTypeID")
                => df.rows[i]["propertyUrl"] = prev.rows[i]["measurementTypeID"]
          /\ df.rows[i]["propertyLabel"] = df.rows[i]["propertyName"]
          /\ IsNA(df.rows[i]["propertyDefinition"])
          /\ ~IsNA(df.rows[i]["observationId"])
          /\ df.rows[i]["measurementValue"] = prev.rows[i]["measurementValue"]

\* C20 as claimed: when no column is a trait-dictionary key and a
\* measurementValue column is present, the result has one row per input
\* row, measurementType renamed to propertyName and measurementTypeID to
\* propertyUrl, propertyLabel equal to propertyName and propertyDefinition
\* null in every row, and an observationId in every row.
C20_AsClaimed == FallbackADone => FallbackAResult

\* C20, amended: the same when the table also has a measurementType column
\* and no observationId column.
C20_FallbackA ==
    (FallbackADone /\ HasCol(prev, "measurementType") /\ ~HasCol(prev, "observationId"))
        => FallbackAResult

\* two rows, the first with a placeholder as measurementValue
C20_Witness ==
    /\ FallbackADone /\ HasCol(prev, "measurementType") /\ ~HasCol(prev, "observationId")
    /\ NRows(prev) = 2 /\ NRows(df) = 2
    /\ prev.rows[1]["measurementValue"] = StrCell(T_empty)
    /\ df.rows[1]["measurementValue"] = StrCell(T_empty)
    /\ df.rows[1]["propertyLabel"] = StrCell(T_temp)
    /\ df.rows[2]["propertyUrl"] = StrCell(T_url)

----------------------------------------------------------------------------

\* TaxonomyMelter has just been applied to a table without taxonRank that
\* has recognized taxonomy columns
Branch2Melt ==
    /\ log # <<>> /\ log[Len(log)] = "taxonomy"
    /\ taxFile = "ok" /\ ~prev.none
    /\ ~HasCol(prev, "taxonRank") /\ taxonomy_columns(prev) # <<>>

\* N*k rows, one per (input row, recognized column) pair, column by column
Branch2Result ==
    LET tc == taxonomy_columns(prev)
        n == NRows(prev)
    IN /\ ~df.none
       /\ NRows(df) = n * Len(tc)
       /\ ColSet(df) = (ColSet(prev) \ TaxonomyList) \cup {"taxonRank", "taxon"}
       /\ \A m \in 1..NRows(df) :
             LET col == tc[((m - 1) \div n) + 1]
                 in == prev.rows[((m - 1) % n) + 1]
             IN /\ df.rows[m]["taxonRank"] = NameCell(col)
                /\ df.rows[m]["taxon"] = in[col]
                /\ \A c \in ColSet(prev) \ TaxonomyList : df.rows[m][c] = in[c]

\* C21 as claimed: for a table with N rows, no taxonRank column and k >= 1
\* recognized taxonomy columns the result has N*k rows, one per (input row,
\* recognized column) pair, taxonRank the column name, taxon the cell's
\* value (null kept), the other columns replicated and the recognized
\* columns removed.
C21_AsClaimed == Branch2Melt => Branch2Result

\* C21, amended: the same for a table that has, besides, no column named
\* taxon.
C21_Branch2Melt == (Branch2Melt /\ ~HasCol(prev, "taxon")) => Branch2Result

\* two recognized columns, a null genus kept
C21_Witness ==
    /\ Branch2Melt /\ ~HasCol(prev, "taxon")
    /\ Len(taxonomy_columns(prev)) = 2 /\ NRows(prev) >= 2
    /\ NRows(df) = 2 * NRows(prev)
    /\ IsNA(prev.rows[1]["genus"]) /\ IsNA(df.rows[1]["taxon"])
    /\ df.rows[2]["taxon"] = StrCell(T_Homo)
    /\ df.rows[NRows(prev) + 1]["taxonRank"] = NameCell("family")

----------------------------------------------------------------------------

\* TaxonomyMelter has just been applied to a table with taxonRank,
\* acceptedNameUsage and recognized taxonomy columns
Branch1Melt ==
    /\ log # <<>> /\ log[Len(log)] = "taxonomy"
    /\ taxFile = "ok" /\ ~prev.none
    /\ HasCol(prev, "taxonRank") /\ HasCol(prev, "acceptedNameUsage")
    /\ taxonomy_columns(prev) # <<>>

\* the N original rows followed by the N*k melted rows
Branch1Result ==
    LET tc == taxonomy_columns(prev)
        n == NRows(prev)
        kept == ColSet(prev) \ (TaxonomyList \cup {"taxonRank", "taxon"})
    IN /\ ~df.none
       /\ NRows(df) = n * (1 + Len(tc))
       /\ ColSet(df) \cap TaxonomyList = {}
       /\ \A i \in 1..n :
             /\ df.rows[i]["taxonRank"] = LowerCell(prev.rows[i]["taxonRank"])
             /\ df.rows[i]["taxon"] = prev.rows[i]["acceptedNameUsage"]
             /\ \A c \in kept : df.rows[i][c] = prev.rows[i][c]
       /\ \A m \in 1..(n * Len(tc)) :
             LET col == tc[((m - 1) \div n) + 1]
                 in == prev.rows[((m - 1) % n) + 1]
             IN /\ df.rows[n + m]["taxonRank"] = NameCell(col)
                /\ df.rows[n + m]["taxon"] = in[col]
                /\ \A c \in kept : df.rows[n + m][c] = in[c]

\* C22 as claimed: for a table with N rows, taxonRank, acceptedNameUsage
\* and k >= 1 recognized columns the result is the N original rows
\* (taxonRank lower-cased, taxon the accepted name, recognized columns
\* removed) and the N*k melted rows, N*(1+k) rows in all; without
\* acceptedNameUsage the stage fails and the run persists nothing.
C22_AsClaimed ==
    /\ Branch1Melt => Branch1Result
    /\ ({"taxonRank"} \subseteq RawCols /\ "acceptedNameUsage" \notin RawCols) => ~saved

\* the claim on tables whose taxonRank column holds some text
C22_WithRankText ==
    (Branch1Melt /\ \E i \in 1..NRows(prev) : IsStr(prev.rows[i]["taxonRank"])) => Branch1Result

----------------------------------------------------------------------------

\* TaxonomyMelter has just failed: no taxonomy list, no table, no
\* acceptedNameUsage next to taxonRank, or an exception in a branch
TaxonomyFailed ==
    /\ log # <<>> /\ log[Len(log)] = "taxonomy"
    /\ \/ taxFile # "ok"
       \/ prev.none
       \/ HasCol(prev, "taxonRank") /\ ~HasCol(prev, "acceptedNameUsage")
       \/ TaxonomyRaises(prev)

\* the state part of C23
NoneMeansNothingPersisted ==
    /\ saved <=> (pc = "done" /\ ~df.none)
    /\ IF saved THEN out = df ELSE out.none
    /\ TaxonomyFailed => df.none
    /\ (ParseFailure /\ Ran("measure")) => df.none
    /\ (df.none /\ pc \in {"taxonomy", "normalize", "save", "done"}) => Ran("measure")
    /\ pc = "done" => (Ran("measure") /\ Ran("taxonomy") /\ Ran("normalize"))

====
